---- MODULE Spec2Model ----
(***************************************************************************)
(* The rule-based eligibility engine of the SarvaSahay prototype           *)
(* (services/eligibility_engine.py, class EligibilityEngine).              *)
(*                                                                         *)
(* Python values are modelled as follows.                                  *)
(*   - a dict is a function whose DOMAIN is the set of keys present, so    *)
(*     `k in d` is  k \in DOMAIN d  and d[k] on an absent key is the       *)
(*     KeyError the operators below make explicit;                         *)
(*   - a list is a sequence; a list used only for `in` is a set;           *)
(*   - None is the record NoneValue;                                       *)
(*   - landOwnership is counted in tenths of an area unit (0.1 is 1,       *)
(*     2.0 is 20), money in rupees, time in milliseconds (5.0 s is 5000),  *)
(*     scores in hundredths (0.8 is 80, 1.0 is 100);                       *)
(*   - float('inf') is PosInf, above every number of the model.            *)
(***************************************************************************)
EXTENDS Integers, Sequences, FiniteSets, TLC

VARIABLES
    schemes,    \* self.schemes, the loaded catalog
    call,       \* the most recent call of the engine's API: its argument, the time its
                \* clock measured, get_scheme_count() before it, and its response
    lastLoad,   \* history: the list passed to the most recent successful load_schemes
    pc,         \* position of the in-flight evaluate_eligibility call ("idle": none)
    iter,       \* the list iterator of its for loop: the list it walks and the next index
    eligible_schemes, \* its local list eligible_schemes
    user_profile,     \* its argument
    seen,       \* history: the catalogs self.schemes held while the most recent
                \* evaluate_eligibility call was in flight
    memo,       \* history: the catalog, profile and list of the most recent
                \* evaluate_eligibility call that returned before the call in `call`
    profiles,   \* ProfileService.profiles, the profile store: id -> stored profile
    svc,        \* the most recent call of the profile service or of the API route:
                \* its arguments, the clock it read, and its response
    successes   \* history: per stored id, the update_profile calls that returned
                \* True since the profile was created

engineVars == <<schemes, call, lastLoad, pc, iter, eligible_schemes, user_profile, seen>>

serviceVars == <<profiles, svc, successes>>

vars == <<schemes, call, lastLoad, pc, iter, eligible_schemes, user_profile, seen,
          memo, profiles, svc, successes>>

---------------------------------------------------------------------------
(* Python values *)

EmptyDict == [k \in {} |-> 0]

NoneValue == [pyNone |-> TRUE]

IsNone(v) == "pyNone" \in DOMAIN v

\* dict.get(k, default)
Get(d, k, default) == IF k \in DOMAIN d THEN d[k] ELSE default

\* `not v` for a dict or None
Falsy(v) == IsNone(v) \/ DOMAIN v = {}

\* isinstance(v, list) for an argument [py |-> type name, val |-> value]
IsList(arg) == arg.py = "list"

PosInf == 1000000000

---------------------------------------------------------------------------
(* EligibilityEngine *)

max_evaluation_time == 5000

MsgNotList == "Schemes must be a list"
MsgEmptyProfile == "User profile cannot be empty"
MsgMissingField == "Missing required profile field"

\* f"{t:.2f}" for a time t in milliseconds: seconds with two decimals, rounded
\* (the model's times are whole milliseconds that are not halfway between two
\* hundredths)
Format2f(t) ==
    LET hundredths == (t + 5) \div 10
        decimals == hundredths % 100
    IN  ToString(hundredths \div 100) \o "."
        \o (IF decimals < 10 THEN "0" ELSE "") \o ToString(decimals)

\* line 55: f"Evaluation took {evaluation_time:.2f}s, exceeds {self.max_evaluation_time}s limit"
MsgTooSlow(evaluation_time) ==
    "Evaluation took " \o Format2f(evaluation_time) \o "s, exceeds 5.0s limit"

Return(v) == [raised |-> "none", msg |-> "", value |-> v]
Raise(kind, m) == [raised |-> kind, msg |-> m, value |-> <<>>]

\* profile[section][field] raises KeyError unless both keys are present
HasField(profile, section, field) ==
    /\ section \in DOMAIN profile
    /\ field \in DOMAIN profile[section]

\* a land check with strict comparisons
check_land_ownership_strict(profile, criteria) ==
    IF "landOwnership" \notin DOMAIN criteria THEN "pass"
    ELSE IF ~HasField(profile, "economic", "landOwnership") THEN "KeyError"
    ELSE LET land_req == criteria["landOwnership"]
             user_land == profile["economic"]["landOwnership"]
         IN  IF Get(land_req, "min", 0) < user_land
                /\ user_land < Get(land_req, "max", PosInf)
             THEN "pass" ELSE "fail"

\* lines 64-69: "pass" (fall through), "fail" (return False) or "KeyError"
check_land_ownership(profile, criteria) ==
    IF "landOwnership" \notin DOMAIN criteria THEN "pass"
    ELSE IF ~HasField(profile, "economic", "landOwnership") THEN "KeyError"
    ELSE LET land_req == criteria["landOwnership"]
             user_land == profile["economic"]["landOwnership"]
         IN  IF Get(land_req, "min", 0) <= user_land
                /\ user_land <= Get(land_req, "max", PosInf)
             THEN "pass" ELSE "fail"

\* lines 71-74
check_employment_status(profile, criteria) ==
    IF "employmentStatus" \notin DOMAIN criteria THEN "pass"
    ELSE IF ~HasField(profile, "economic", "employmentStatus") THEN "KeyError"
    ELSE IF profile["economic"]["employmentStatus"] \notin criteria["employmentStatus"]
         THEN "fail" ELSE "pass"

\* lines 76-81: only the max bound is read
check_annual_income(profile, criteria) ==
    IF "annualIncome" \notin DOMAIN criteria THEN "pass"
    ELSE IF ~HasField(profile, "economic", "annualIncome") THEN "KeyError"
    ELSE LET income_req == criteria["annualIncome"]
             user_income == profile["economic"]["annualIncome"]
         IN  IF user_income > Get(income_req, "max", PosInf)
             THEN "fail" ELSE "pass"

\* an age check whose absent max is unbounded, like the land check's
check_age_no_cap(profile, criteria) ==
    IF "age" \notin DOMAIN criteria THEN "pass"
    ELSE IF ~HasField(profile, "demographics", "age") THEN "KeyError"
    ELSE LET age_req == criteria["age"]
             user_age == profile["demographics"]["age"]
         IN  IF Get(age_req, "min", 0) <= user_age
                /\ user_age <= Get(age_req, "max", PosInf)
             THEN "pass" ELSE "fail"

\* lines 83-88
check_age(profile, criteria) ==
    IF "age" \notin DOMAIN criteria THEN "pass"
    ELSE IF ~HasField(profile, "demographics", "age") THEN "KeyError"
    ELSE LET age_req == criteria["age"]
             user_age == profile["demographics"]["age"]
         IN  IF Get(age_req, "min", 0) <= user_age
                /\ user_age <= Get(age_req, "max", 150)
             THEN "pass" ELSE "fail"

\* a scheme check that accepts a profile as soon as one criterion passes
_check_scheme_eligibility_any(profile, scheme) ==
    LET criteria == Get(scheme, "eligibilityCriteria", EmptyDict)
        results == {check_land_ownership(profile, criteria),
                    check_employment_status(profile, criteria),
                    check_annual_income(profile, criteria),
                    check_age(profile, criteria)}
    IN  IF "KeyError" \in results THEN "ValueError"
        ELSE IF "pass" \in results THEN "True" ELSE "False"

\* a scheme check that reads the four profile fields before it looks at the criteria
_check_scheme_eligibility_eager(profile, scheme) ==
    LET criteria == Get(scheme, "eligibilityCriteria", EmptyDict)
        land == check_land_ownership(profile, criteria)
        employment == check_employment_status(profile, criteria)
        income == check_annual_income(profile, criteria)
        age == check_age(profile, criteria)
        Decide(r) == IF r = "fail" THEN "False" ELSE "ValueError"
    IN  IF ~(/\ HasField(profile, "economic", "landOwnership")
             /\ HasField(profile, "economic", "employmentStatus")
             /\ HasField(profile, "economic", "annualIncome")
             /\ HasField(profile, "demographics", "age")) THEN "ValueError"
        ELSE IF land # "pass" THEN Decide(land)
        ELSE IF employment # "pass" THEN Decide(employment)
        ELSE IF income # "pass" THEN Decide(income)
        ELSE IF age # "pass" THEN Decide(age)
        ELSE "True"

\* lines 59-93: "True", "False", or "ValueError" (the KeyError re-raised at line 93).
\* The four checks run in this order and the first that does not pass decides.
_check_scheme_eligibility(profile, scheme) ==
    LET criteria == Get(scheme, "eligibilityCriteria", EmptyDict)
        land == check_land_ownership(profile, criteria)
        employment == check_employment_status(profile, criteria)
        income == check_annual_income(profile, criteria)
        age == check_age(profile, criteria)
        Decide(r) == IF r = "fail" THEN "False" ELSE "ValueError"
    IN  IF land # "pass" THEN Decide(land)
        ELSE IF employment # "pass" THEN Decide(employment)
        ELSE IF income # "pass" THEN Decide(income)
        ELSE IF age # "pass" THEN Decide(age)
        ELSE "True"

Min2(a, b) == IF a <= b THEN a ELSE b

\* a score whose increment goes to schemes with a land criterion
_calculate_eligibility_score_for_land(profile, scheme) ==
    LET criteria == Get(scheme, "eligibilityCriteria", EmptyDict)
        base_score == 80
        boosted == IF "landOwnership" \in DOMAIN criteria
                   THEN base_score + 10 ELSE base_score
    IN  Min2(boosted, 100)

\* a score that adds 0.1 for every criterion of the scheme and has no cap
_calculate_eligibility_score_uncapped(profile, scheme) ==
    LET criteria == Get(scheme, "eligibilityCriteria", EmptyDict)
        base_score == 80
    IN  base_score + 10 * Cardinality(DOMAIN criteria)

\* lines 95-108, called only for a scheme that passed _check_scheme_eligibility
_calculate_eligibility_score(profile, scheme) ==
    LET criteria == Get(scheme, "eligibilityCriteria", EmptyDict)
        base_score == 80
        boosted == IF "employmentStatus" \in DOMAIN criteria
                      /\ profile["economic"]["employmentStatus"] \in criteria["employmentStatus"]
                   THEN base_score + 10 ELSE base_score
    IN  Min2(boosted, 100)

\* a categorization whose first threshold is exclusive
_determine_eligibility_category_above(profile, scheme) ==
    LET score == _calculate_eligibility_score(profile, scheme)
    IN  IF score > 90 THEN "Definitely Eligible"
        ELSE IF score >= 70 THEN "Likely Eligible"
        ELSE "Conditional"

\* lines 110-119
_determine_eligibility_category(profile, scheme) ==
    LET score == _calculate_eligibility_score(profile, scheme)
    IN  IF score >= 90 THEN "Definitely Eligible"
        ELSE IF score >= 70 THEN "Likely Eligible"
        ELSE "Conditional"

\* an iteration that skips a scheme whose id is in the list already
loop_body_once_per_id(profile, scheme, eligible) ==
    LET ok == _check_scheme_eligibility(profile, scheme)
    IN  IF ok = "ValueError" THEN [raised |-> "ValueError", msg |-> MsgMissingField, list |-> eligible]
        ELSE IF ok = "False" THEN [raised |-> "none", msg |-> "", list |-> eligible]
        ELSE IF "schemeId" \notin DOMAIN scheme THEN [raised |-> "KeyError", msg |-> "schemeId", list |-> eligible]
        ELSE IF "name" \notin DOMAIN scheme THEN [raised |-> "KeyError", msg |-> "name", list |-> eligible]
        ELSE IF "benefitAmount" \notin DOMAIN scheme THEN [raised |-> "KeyError", msg |-> "benefitAmount", list |-> eligible]
        ELSE IF \E i \in DOMAIN eligible : eligible[i].schemeId = scheme["schemeId"]
             THEN [raised |-> "none", msg |-> "", list |-> eligible]
        ELSE [raised |-> "none", msg |-> "",
              list |-> Append(eligible,
                  [schemeId |-> scheme["schemeId"],
                   name |-> scheme["name"],
                   benefitAmount |-> scheme["benefitAmount"],
                   eligibilityScore |-> _calculate_eligibility_score(profile, scheme),
                   category |-> _determine_eligibility_category(profile, scheme)])]

\* lines 41-48: one iteration of the for loop.  [raised, msg, list]
loop_body(profile, scheme, eligible) ==
    LET ok == _check_scheme_eligibility(profile, scheme)
    IN  IF ok = "ValueError" THEN [raised |-> "ValueError", msg |-> MsgMissingField, list |-> eligible]
        ELSE IF ok = "False" THEN [raised |-> "none", msg |-> "", list |-> eligible]
        ELSE IF "schemeId" \notin DOMAIN scheme THEN [raised |-> "KeyError", msg |-> "schemeId", list |-> eligible]
        ELSE IF "name" \notin DOMAIN scheme THEN [raised |-> "KeyError", msg |-> "name", list |-> eligible]
        ELSE IF "benefitAmount" \notin DOMAIN scheme THEN [raised |-> "KeyError", msg |-> "benefitAmount", list |-> eligible]
        ELSE [raised |-> "none", msg |-> "",
              list |-> Append(eligible,
                  [schemeId |-> scheme["schemeId"],
                   name |-> scheme["name"],
                   benefitAmount |-> scheme["benefitAmount"],
                   eligibilityScore |-> _calculate_eligibility_score(profile, scheme),
                   category |-> _determine_eligibility_category(profile, scheme)])]

\* lines 40-48: the for loop over the list `catalog` from index i on
RECURSIVE for_loop(_, _, _, _)
for_loop(profile, catalog, i, eligible) ==
    IF i > Len(catalog) THEN [raised |-> "none", msg |-> "", list |-> eligible]
    ELSE LET r == loop_body(profile, catalog[i], eligible)
         IN  IF r.raised # "none" THEN r
             ELSE for_loop(profile, catalog, i + 1, r.list)

\* a descending sort that puts an element before the elements of equal key
RECURSIVE insert_desc_unstable(_, _)
insert_desc_unstable(sorted, x) ==
    IF sorted = <<>> THEN <<x>>
    ELSE IF Head(sorted).benefitAmount > x.benefitAmount
         THEN <<Head(sorted)>> \o insert_desc_unstable(Tail(sorted), x)
         ELSE <<x>> \o sorted

\* list.sort(key=benefitAmount, reverse=True) is stable: an element goes after
\* every element whose key is greater than or equal to its own
RECURSIVE insert_desc(_, _)
insert_desc(sorted, x) ==
    IF sorted = <<>> THEN <<x>>
    ELSE IF Head(sorted).benefitAmount >= x.benefitAmount
         THEN <<Head(sorted)>> \o insert_desc(Tail(sorted), x)
         ELSE <<x>> \o sorted

\* line 51
RECURSIVE sort_by_benefit(_)
sort_by_benefit(list) ==
    IF list = <<>> THEN <<>>
    ELSE insert_desc(sort_by_benefit(SubSeq(list, 1, Len(list) - 1)), list[Len(list)])

\* an end of the call that hands out the matches along with the time error
finish_partial(eligible, evaluation_time) ==
    LET ranked == sort_by_benefit(eligible)
    IN  IF evaluation_time > max_evaluation_time
        THEN [raised |-> "RuntimeError", msg |-> MsgTooSlow(evaluation_time), value |-> ranked]
        ELSE Return(ranked)

\* an end of the call that also fails a call that took exactly the limit
finish_at_limit(eligible, evaluation_time) ==
    LET ranked == sort_by_benefit(eligible)
    IN  IF evaluation_time >= max_evaluation_time
        THEN Raise("RuntimeError", MsgTooSlow(evaluation_time))
        ELSE Return(ranked)

\* lines 50-57: what follows the loop, given the measured evaluation_time
finish(eligible, evaluation_time) ==
    LET ranked == sort_by_benefit(eligible)
    IN  IF evaluation_time > max_evaluation_time
        THEN Raise("RuntimeError", MsgTooSlow(evaluation_time))
        ELSE Return(ranked)

\* an evaluate that hands out the list of an earlier call for the same profile
evaluate_eligibility_cached(catalog, profile, evaluation_time) ==
    IF Falsy(profile) THEN Raise("ValueError", MsgEmptyProfile)
    ELSE IF memo.returned /\ memo.arg = profile THEN Return(memo.value)
    ELSE LET r == for_loop(profile, catalog, 1, <<>>)
         IN  IF r.raised # "none" THEN Raise(r.raised, r.msg)
             ELSE finish(r.list, evaluation_time)

\* an evaluate that tests the schemes before it looks at the profile
evaluate_eligibility_check_last(catalog, profile, evaluation_time) ==
    LET r == for_loop(profile, catalog, 1, <<>>)
    IN  IF r.raised # "none" THEN Raise(r.raised, r.msg)
        ELSE IF Falsy(profile) THEN Raise("ValueError", MsgEmptyProfile)
        ELSE finish(r.list, evaluation_time)

\* lines 28-57 run without interruption against the list `catalog`
evaluate_eligibility(catalog, profile, evaluation_time) ==
    IF Falsy(profile) THEN Raise("ValueError", MsgEmptyProfile)
    ELSE LET r == for_loop(profile, catalog, 1, <<>>)
         IN  IF r.raised # "none" THEN Raise(r.raised, r.msg)
             ELSE finish(r.list, evaluation_time)

\* a load that extends the catalog instead of replacing it
load_schemes_extend(self_schemes, arg) ==
    IF ~IsList(arg)
    THEN [raised |-> "ValueError", msg |-> MsgNotList, schemes |-> self_schemes]
    ELSE [raised |-> "none", msg |-> "", schemes |-> self_schemes \o arg.val]

\* a load that empties the catalog before it validates its argument
load_schemes_reset(self_schemes, arg) ==
    IF ~IsList(arg)
    THEN [raised |-> "ValueError", msg |-> MsgNotList, schemes |-> <<>>]
    ELSE [raised |-> "none", msg |-> "", schemes |-> arg.val]

\* lines 21-26: the response and the new value of self.schemes
load_schemes(self_schemes, arg) ==
    IF ~IsList(arg)
    THEN [raised |-> "ValueError", msg |-> MsgNotList, schemes |-> self_schemes]
    ELSE [raised |-> "none", msg |-> "", schemes |-> arg.val]

\* lines 121-123
get_scheme_count == Len(schemes)

---------------------------------------------------------------------------
(* The callers' inputs *)

\* tests/conftest.py lines 43-52 and api/routes/eligibility_routes.py lines 60-69
PM_KISAN ==
    [schemeId |-> "PM-KISAN", name |-> "Pradhan Mantri Kisan Samman Nidhi",
     benefitAmount |-> 6000,
     eligibilityCriteria |->
        [landOwnership |-> [min |-> 1, max |-> 20],
         employmentStatus |-> {"farmer"},
         annualIncome |-> [max |-> 200000]]]

\* api/routes/eligibility_routes.py lines 70-77
MGNREGA ==
    [schemeId |-> "MGNREGA",
     name |-> "Mahatma Gandhi National Rural Employment Guarantee Act",
     benefitAmount |-> 25000,
     eligibilityCriteria |-> [age |-> [min |-> 18, max |-> 65]]]

\* tests/conftest.py lines 53-61: the same scheme with a rural-only flag
MGNREGA_RURAL ==
    [MGNREGA EXCEPT !.eligibilityCriteria =
        [location |-> [rural |-> TRUE], age |-> [min |-> 18, max |-> 65]]]

\* api/routes/eligibility_routes.py lines 78-86
PMAY ==
    [schemeId |-> "PMAY", name |-> "Pradhan Mantri Awas Yojana",
     benefitAmount |-> 120000,
     eligibilityCriteria |->
        [annualIncome |-> [max |-> 300000],
         employmentStatus |-> {"farmer", "laborer"}]]

\* a second scheme with PM-KISAN's benefit amount and another id (a ranking tie)
PMFBY ==
    [schemeId |-> "PMFBY", name |-> "Pradhan Mantri Fasal Bima Yojana",
     benefitAmount |-> 6000,
     eligibilityCriteria |-> [employmentStatus |-> {"farmer"}]]

SchemePool == {PM_KISAN, MGNREGA, PMAY, PMFBY}

\* the longest list passed to load_schemes
MaxCatalog == 3

Lists(pool, n) == UNION {[1..k -> pool] : k \in 0..n}

\* tests/conftest.py lines 13-36, with the four fields the tests vary
Profile(age, income, land, employment) ==
    [profileId |-> "test-user-123",
     demographics |-> [age |-> age, gender |-> "female", caste |-> "SC",
                       maritalStatus |-> "married"],
     economic |-> [annualIncome |-> income, landOwnership |-> land,
                   employmentStatus |-> employment],
     location |-> [state |-> "Maharashtra", district |-> "Pune",
                   block |-> "Haveli", village |-> "Pirangut", rural |-> FALSE],
     family |-> [size |-> 4, dependents |-> 2]]

\* profile without the keys of `sections`
Without(profile, sections) ==
    [k \in DOMAIN profile \ sections |-> profile[k]]

\* tests/unit/test_eligibility_engine.py lines 43-45
Farmer == Profile(35, 150000, 15, "farmer")

\* tests/unit/test_eligibility_engine.py line 97
InvalidProfile == [invalid |-> "data"]

\* tests/unit/test_eligibility_engine.py line 62 on top of lines 43-45
RichFarmer == Profile(35, 500000, 15, "farmer")

ProfilePool ==
    {Farmer, RichFarmer,
     Profile(35, 120000, 25, "farmer"),
     Profile(70, 90000, 0, "laborer"),
     Profile(17, 150000, 15, "farmer"),
     Without(Profile(35, 120000, 25, "farmer"), {"demographics"}),
     InvalidProfile, EmptyDict, NoneValue}

\* arguments of load_schemes that are not lists
NotLists ==
    {[py |-> "str", val |-> "not a list"],
     [py |-> "NoneType", val |-> NoneValue],
     [py |-> "tuple", val |-> <<PM_KISAN, MGNREGA>>]}

LoadArgs == {[py |-> "list", val |-> l] : l \in Lists(SchemePool, MaxCatalog)} \cup NotLists

\* what time.time() - start_time can come to: around the limit and well above it
ElapsedTimes == {0, max_evaluation_time, max_evaluation_time + 1, 7250}

---------------------------------------------------------------------------
(* The engine as a state machine *)

Idle == [list |-> <<>>, index |-> 1]

\* no evaluate_eligibility call has returned yet
NoMemo == [returned |-> FALSE, catalog |-> <<>>, arg |-> EmptyDict, value |-> <<>>]

\* ProfileService.__init__, lines 18-20 of services/profile_service.py
ServiceInit ==
    /\ profiles = EmptyDict
    /\ svc = [op |-> "init", now |-> 0]
    /\ successes = EmptyDict

\* lines 16-19
Init ==
    /\ schemes = <<>>
    /\ call = [op |-> "init", arg |-> EmptyDict, elapsed |-> 0, countBefore |-> 0,
               raised |-> "none", msg |-> "", value |-> <<>>]
    /\ lastLoad = <<>>
    /\ pc = "idle"
    /\ iter = Idle
    /\ eligible_schemes = <<>>
    /\ user_profile = EmptyDict
    /\ seen = {}
    /\ memo = NoMemo
    /\ ServiceInit

\* load_schemes(arg), lines 21-26
Load(arg) ==
    LET r == load_schemes(schemes, arg)
    IN  /\ schemes' = r.schemes
        /\ call' = [op |-> "load", arg |-> arg, elapsed |-> 0,
                    countBefore |-> get_scheme_count,
                    raised |-> r.raised, msg |-> r.msg, value |-> <<>>]
        /\ lastLoad' = IF r.raised = "none" THEN arg.val ELSE lastLoad
        /\ seen' = IF pc = "idle" THEN {} ELSE seen \cup {r.schemes}
        /\ UNCHANGED <<pc, iter, eligible_schemes, user_profile>>

\* evaluate_eligibility(profile), lines 28-57, with no other call in between;
\* t is the time the clock measures
Evaluate(profile, t) ==
    /\ pc = "idle"
    /\ LET r == evaluate_eligibility(schemes, profile, t)
       IN  call' = [op |-> "evaluate", arg |-> profile, elapsed |-> t,
                    countBefore |-> get_scheme_count,
                    raised |-> r.raised, msg |-> r.msg, value |-> r.value]
    /\ UNCHANGED <<schemes, lastLoad, pc, iter, eligible_schemes, user_profile, seen>>

Next ==
    \/ \E arg \in LoadArgs : Load(arg) /\ UNCHANGED <<memo, serviceVars>>
    \/ \E profile \in ProfilePool, t \in ElapsedTimes :
          Evaluate(profile, t) /\ UNCHANGED <<memo, serviceVars>>

Spec == Init /\ [][Next]_vars

---------------------------------------------------------------------------
(* One scheme against one profile: PM-KISAN's record with its criteria      *)
(* varied over every combination of the criterion shapes, evaluated for     *)
(* profiles whose values sit on, next to and away from the bounds.          *)

Ranges(lo, hi) == {[min |-> lo, max |-> hi], [max |-> hi], [min |-> lo], EmptyDict}

Optional(key, values) == {EmptyDict} \cup {key :> v : v \in values}

\* criteria the engine reads (lines 65, 72, 77, 84) ...
LandCriteria == Optional("landOwnership", Ranges(1, 20))
EmploymentCriteria == Optional("employmentStatus", {{"farmer"}})
IncomeCriteria == Optional("annualIncome", Ranges(100000, 200000) \ {EmptyDict})
AgeCriteria == Optional("age", Ranges(18, 65))

\* ... and criteria it has no code for (tests/conftest.py line 58 carries one)
OtherCriteria ==
    {EmptyDict,
     "location" :> [rural |-> TRUE],
     "gender" :> {"male"},
     "familySize" :> [min |-> 5, max |-> 10]}

CriteriaSpace ==
    {l @@ e @@ i @@ a @@ o :
        l \in LandCriteria, e \in EmploymentCriteria, i \in IncomeCriteria,
        a \in AgeCriteria, o \in OtherCriteria}

CriteriaSchemes ==
    {[PM_KISAN EXCEPT !.eligibilityCriteria = c] : c \in CriteriaSpace}
    \cup {Without(PM_KISAN, {"eligibilityCriteria"})}

LandValues == {-1, 0, 1, 15, 20, 21}
IncomeValues == {-1, 99999, 150000, 200000, 200001, 500000}
AgeValues == {-1, 0, 17, 18, 35, 65, 66, 150, 151}
EmploymentValues == {"farmer", "laborer"}

FullProfiles ==
    {Profile(a, i, l, e) :
        a \in AgeValues, i \in IncomeValues, l \in LandValues, e \in EmploymentValues}

\* profiles that lack a section or a field
PartialProfiles ==
    LET base == {Profile(35, i, l, "farmer") : i \in {150000, 500000}, l \in {15, 25}}
    IN  UNION {{Without(p, {"demographics"}),
                Without(p, {"economic"}),
                Without(p, {"location", "family"}),
                [p EXCEPT !.economic = Without(p.economic, {"landOwnership"})],
                [p EXCEPT !.demographics = Without(p.demographics, {"age"})]} : p \in base}

CriteriaProfiles == FullProfiles \cup PartialProfiles \cup {InvalidProfile}

\* the engine after load_schemes([s])
InitCriteria ==
    /\ \E s \in CriteriaSchemes :
          /\ schemes = <<s>>
          /\ lastLoad = <<s>>
          /\ call = [op |-> "load", arg |-> [py |-> "list", val |-> <<s>>],
                     elapsed |-> 0, countBefore |-> 0, raised |-> "none", msg |-> "", value |-> <<>>]
    /\ pc = "idle"
    /\ iter = Idle
    /\ eligible_schemes = <<>>
    /\ user_profile = EmptyDict
    /\ seen = {}
    /\ memo = NoMemo
    /\ ServiceInit

\* one evaluate_eligibility call on the engine just loaded, on a clock that
\* stays within the limit (a call leaves the engine as it found it, so a
\* second call would start from the same engine)
NextCriteria ==
    /\ call.op = "load"
    /\ \E profile \in CriteriaProfiles : Evaluate(profile, 0)
    /\ UNCHANGED <<memo, serviceVars>>

SpecCriteria == InitCriteria /\ [][NextCriteria]_vars

---------------------------------------------------------------------------
(* evaluate_eligibility step by step, with load_schemes calls of another    *)
(* thread in between.  The interpreter switches threads between bytecodes:  *)
(* the call is cut where self.schemes is read (line 40) and between the     *)
(* iterations of its loop.                                                  *)

\* a loop that reads self.schemes again at every iteration
iterated_list_reread(it, self_schemes) == self_schemes

\* line 40: `for scheme in self.schemes` evaluates self.schemes once; the
\* iterator holds that list object, whatever self.schemes is bound to later
iterated_list(it, self_schemes) == it.list

\* lines 33-40: the empty-profile check, eligible_schemes = [], iter(self.schemes)
EvalBegin(profile) ==
    /\ pc = "idle"
    /\ seen' = {schemes}
    /\ IF Falsy(profile)
       THEN /\ call' = [op |-> "evaluate", arg |-> profile, elapsed |-> 0,
                        countBefore |-> get_scheme_count,
                        raised |-> "ValueError", msg |-> MsgEmptyProfile, value |-> <<>>]
            /\ UNCHANGED <<pc, iter, eligible_schemes, user_profile>>
       ELSE /\ call' = [op |-> "evaluate", arg |-> profile, elapsed |-> 0,
                        countBefore |-> get_scheme_count,
                        raised |-> "pending", msg |-> "", value |-> <<>>]
            /\ pc' = "loop"
            /\ user_profile' = profile
            /\ eligible_schemes' = <<>>
            /\ iter' = [list |-> schemes, index |-> 1]
    /\ UNCHANGED <<schemes, lastLoad>>

\* lines 40-48: the iterator yields the next scheme and the loop body runs
EvalIterate ==
    /\ pc = "loop"
    /\ iter.index <= Len(iterated_list(iter, schemes))
    /\ LET r == loop_body(user_profile, iterated_list(iter, schemes)[iter.index],
                          eligible_schemes)
       IN  IF r.raised # "none"
           THEN /\ call' = [op |-> "evaluate", arg |-> user_profile, elapsed |-> 0,
                            countBefore |-> get_scheme_count,
                            raised |-> r.raised, msg |-> r.msg, value |-> <<>>]
                /\ pc' = "idle"
                /\ iter' = Idle
                /\ eligible_schemes' = <<>>
                /\ user_profile' = EmptyDict
           ELSE /\ eligible_schemes' = r.list
                /\ iter' = [iter EXCEPT !.index = @ + 1]
                /\ UNCHANGED <<call, pc, user_profile>>
    /\ UNCHANGED <<schemes, lastLoad, seen>>

\* lines 40, 50-57: the iterator is exhausted; sort, time check, return
EvalFinish(t) ==
    /\ pc = "loop"
    /\ iter.index > Len(iterated_list(iter, schemes))
    /\ LET r == finish(eligible_schemes, t)
       IN  call' = [op |-> "evaluate", arg |-> user_profile, elapsed |-> t,
                    countBefore |-> get_scheme_count,
                    raised |-> r.raised, msg |-> r.msg, value |-> r.value]
    /\ pc' = "idle"
    /\ iter' = Idle
    /\ eligible_schemes' = <<>>
    /\ user_profile' = EmptyDict
    /\ UNCHANGED <<schemes, lastLoad, seen>>

ConcPool == {PM_KISAN, MGNREGA}

\* the longest list loaded while calls interleave
MaxConcCatalog == 2

\* the number of load_schemes calls that change the catalog during one evaluate call
MaxLoadsInFlight == 1

ConcLoadArgs ==
    {[py |-> "list", val |-> l] : l \in Lists(ConcPool, MaxConcCatalog)}
    \cup {[py |-> "str", val |-> "not a list"]}

ConcProfiles == {Farmer, Without(Farmer, {"demographics"}), EmptyDict}

NextConc ==
    \/ \E arg \in ConcLoadArgs :
          /\ pc = "idle" \/ Cardinality(seen) <= MaxLoadsInFlight
          /\ Load(arg)
          /\ UNCHANGED <<memo, serviceVars>>
    \/ \E profile \in ConcProfiles : EvalBegin(profile) /\ UNCHANGED <<memo, serviceVars>>
    \/ EvalIterate /\ UNCHANGED <<memo, serviceVars>>
    \/ \E t \in ElapsedTimes : EvalFinish(t) /\ UNCHANGED <<memo, serviceVars>>

SpecConc == Init /\ [][NextConc]_vars

---------------------------------------------------------------------------
(* Calls one after another, with the latest call that returned kept for     *)
(* comparison with the calls that follow it.                                *)

\* keep the call in `call`, if it returned, as the next call begins
Remember ==
    memo' = IF call.op = "evaluate" /\ call.raised = "none"
            THEN [returned |-> TRUE, catalog |-> schemes, arg |-> call.arg,
                  value |-> call.value]
            ELSE memo

AgainProfiles == {Farmer, RichFarmer, Without(Farmer, {"demographics"})}

NextAgain ==
    \/ \E arg \in ConcLoadArgs : Load(arg) /\ Remember /\ UNCHANGED serviceVars
    \/ \E profile \in AgainProfiles, t \in ElapsedTimes :
          Evaluate(profile, t) /\ Remember /\ UNCHANGED serviceVars

SpecAgain == Init /\ [][NextAgain]_vars

---------------------------------------------------------------------------
(* The caller keeps the list it passed to load_schemes.  Line 26,           *)
(* `self.schemes = schemes`, binds self.schemes to that very list object,   *)
(* so `schemes` below is the content of the one object both refer to, and   *)
(* its elements are the caller's dicts.                                     *)

\* the engine after load_schemes(list), the caller holding `list`
InitAlias ==
    /\ \E list \in Lists(ConcPool, MaxConcCatalog) :
          /\ schemes = list
          /\ lastLoad = list
          /\ call = [op |-> "load", arg |-> [py |-> "list", val |-> list],
                     elapsed |-> 0, countBefore |-> 0, raised |-> "none", msg |-> "", value |-> <<>>]
    /\ pc = "idle"
    /\ iter = Idle
    /\ eligible_schemes = <<>>
    /\ user_profile = EmptyDict
    /\ seen = {}
    /\ memo = NoMemo
    /\ ServiceInit

\* the caller: list.append(scheme)
CallerAppends(scheme) ==
    /\ Len(schemes) < MaxCatalog
    /\ schemes' = Append(schemes, scheme)
    /\ UNCHANGED <<call, lastLoad, pc, iter, eligible_schemes, user_profile, seen>>

\* the caller: del list[i]
CallerRemoves(i) ==
    /\ i \in DOMAIN schemes
    /\ schemes' = SubSeq(schemes, 1, i - 1) \o SubSeq(schemes, i + 1, Len(schemes))
    /\ UNCHANGED <<call, lastLoad, pc, iter, eligible_schemes, user_profile, seen>>

\* the caller: list[i]["benefitAmount"] = amount
CallerModifies(i, amount) ==
    /\ i \in DOMAIN schemes
    /\ schemes' = [schemes EXCEPT ![i] = [@ EXCEPT !["benefitAmount"] = amount]]
    /\ UNCHANGED <<call, lastLoad, pc, iter, eligible_schemes, user_profile, seen>>

NextAlias ==
    \/ \E arg \in ConcLoadArgs : Load(arg) /\ UNCHANGED <<memo, serviceVars>>
    \/ \E profile \in {Farmer, RichFarmer} : Evaluate(profile, 0) /\ UNCHANGED <<memo, serviceVars>>
    \/ \E scheme \in ConcPool : CallerAppends(scheme) /\ UNCHANGED <<memo, serviceVars>>
    \/ \E i \in 1..MaxCatalog : CallerRemoves(i) /\ UNCHANGED <<memo, serviceVars>>
    \/ \E i \in 1..MaxCatalog : CallerModifies(i, 50000) /\ UNCHANGED <<memo, serviceVars>>

SpecAlias == InitAlias /\ [][NextAlias]_vars

---------------------------------------------------------------------------
(* Lists of dicts that load_schemes is handed: scheme records as the        *)
(* callers write them, records that lack a key the loop reads at lines      *)
(* 43-45, records without criteria, and records whose benefit is not a      *)
(* positive amount.                                                         *)

\* a scheme record open to everyone: `eligibilityCriteria` is {}
OPEN_SCHEME ==
    [schemeId |-> "OPEN", name |-> "Open scheme", benefitAmount |-> 1000,
     eligibilityCriteria |-> EmptyDict]

RecordPool ==
    {PM_KISAN, OPEN_SCHEME,
     Without(PM_KISAN, {"schemeId"}),
     Without(PM_KISAN, {"name"}),
     Without(OPEN_SCHEME, {"benefitAmount"}),
     EmptyDict,
     [OPEN_SCHEME EXCEPT !.schemeId = "ZERO", !.benefitAmount = 0],
     [PM_KISAN EXCEPT !.schemeId = "DEBT", !.benefitAmount = -500]}

\* the longest list of such records
MaxRecords == 2

RecordLoadArgs ==
    {[py |-> "list", val |-> l] : l \in Lists(RecordPool, MaxRecords)}
    \cup {[py |-> "str", val |-> "not a list"]}

RecordProfiles == {Farmer, RichFarmer, InvalidProfile, EmptyDict, NoneValue}

NextRecords ==
    \/ \E arg \in RecordLoadArgs : Load(arg) /\ UNCHANGED <<memo, serviceVars>>
    \/ \E profile \in RecordProfiles : Evaluate(profile, 0) /\ UNCHANGED <<memo, serviceVars>>

SpecRecords == Init /\ [][NextRecords]_vars

---------------------------------------------------------------------------
(* A catalog made of copies of a list, as the API route and the performance *)
(* test load it.                                                            *)

\* list * k
RECURSIVE Repeat(_, _)
Repeat(list, k) == IF k <= 0 THEN <<>> ELSE list \o Repeat(list, k - 1)

\* the largest number of copies (api/routes/eligibility_routes.py line 90 takes 10)
MaxCopies == 10

\* the engine after load_schemes(list * k)
InitCopies ==
    /\ \E list \in Lists(SchemePool, MaxCatalog), k \in 1..MaxCopies :
          /\ schemes = Repeat(list, k)
          /\ lastLoad = Repeat(list, k)
          /\ call = [op |-> "load", arg |-> [py |-> "list", val |-> Repeat(list, k)],
                     elapsed |-> 0, countBefore |-> 0, raised |-> "none", msg |-> "", value |-> <<>>]
    /\ pc = "idle"
    /\ iter = Idle
    /\ eligible_schemes = <<>>
    /\ user_profile = EmptyDict
    /\ seen = {}
    /\ memo = NoMemo
    /\ ServiceInit

\* one evaluate_eligibility call on the engine just loaded
NextCopies ==
    /\ call.op = "load"
    /\ \E profile \in ProfilePool : Evaluate(profile, 0)
    /\ UNCHANGED <<memo, serviceVars>>

SpecCopies == InitCopies /\ [][NextCopies]_vars

---------------------------------------------------------------------------
(* ProfileService (services/profile_service.py).                            *)
(*                                                                          *)
(* A profile is a dict of sections (dicts) and metadata (profileId, a       *)
(* string; createdAt and updatedAt, clock readings; version, a number).     *)
(* An argument whose type the code tests is [py |-> type name, val |->      *)
(* value].  float('nan') is NaN, for which every comparison is false.       *)

NaN == -(PosInf + 1)

\* a < b and a <= b on Python numbers
PyLt(a, b) == a # NaN /\ b # NaN /\ a < b
PyLe(a, b) == a # NaN /\ b # NaN /\ a <= b

\* the response of a service call and the store it leaves
Response(kind, m, v, store) == [raised |-> kind, msg |-> m, value |-> v, profiles |-> store]

\* lines 137-141: json.dumps(profile, sort_keys=True), a text that holds the
\* profile as it is at the call
_encrypt_profile(profile) == [json |-> profile]

\* lines 143-146: json.loads, a new dict with the content of the text
_decrypt_profile(encrypted_profile) == encrypted_profile.json

required_sections == <<"demographics", "economic", "location", "family">>
required_demo_fields == <<"age", "gender", "caste", "maritalStatus">>
required_econ_fields == <<"annualIncome", "landOwnership", "employmentStatus">>

\* the first key of the list `keys` that is not in `present`, "" if there is none
RECURSIVE FirstMissing(_, _)
FirstMissing(keys, present) ==
    IF keys = <<>> THEN ""
    ELSE IF Head(keys) \notin present THEN Head(keys)
    ELSE FirstMissing(Tail(keys), present)

\* lines 97-129: [raised, msg], raised = "none" when the profile passes
_validate_profile_structure(profile) ==
    LET section == FirstMissing(required_sections, DOMAIN profile)
        demo == profile["demographics"]
        econ == profile["economic"]
        demo_field == FirstMissing(required_demo_fields, DOMAIN demo)
        econ_field == FirstMissing(required_econ_fields, DOMAIN econ)
        Fail(m) == [raised |-> "ValueError", msg |-> m]
    IN  IF section # "" THEN Fail("Missing required section: " \o section)
        ELSE IF IsNone(demo) THEN [raised |-> "TypeError", msg |-> "argument of type 'NoneType' is not iterable"]
        ELSE IF demo_field # "" THEN Fail("Missing required demographics field: " \o demo_field)
        ELSE IF ~(PyLe(0, demo["age"]) /\ PyLe(demo["age"], 150))
             THEN Fail("Age must be between 0 and 150")
        ELSE IF IsNone(econ) THEN [raised |-> "TypeError", msg |-> "argument of type 'NoneType' is not iterable"]
        ELSE IF econ_field # "" THEN Fail("Missing required economic field: " \o econ_field)
        ELSE IF PyLt(econ["annualIncome"], 0) THEN Fail("Annual income cannot be negative")
        ELSE IF PyLt(econ["landOwnership"], 0) THEN Fail("Land ownership cannot be negative")
        ELSE [raised |-> "none", msg |-> ""]

\* lines 131-135: the first 12 hex digits of the md5 of "age-state-timestamp",
\* kept as the text that is hashed (the hash tells two texts apart)
_generate_profile_id(profile_data, now) ==
    "md5:" \o ToString(profile_data["demographics"]["age"]) \o "-"
           \o profile_data["location"]["state"] \o "-" \o ToString(now)

\* lines 22-43, with the clock reading `now`
create_profile(store, profile_data, now) ==
    IF Falsy(profile_data)
    THEN Response("ValueError", "Profile data cannot be empty", "", store)
    ELSE LET valid == _validate_profile_structure(profile_data)
         IN  IF valid.raised # "none" THEN Response(valid.raised, valid.msg, "", store)
             ELSE IF ~HasField(profile_data, "location", "state")
                  THEN Response("KeyError", "state", "", store)
             ELSE LET profile_id == _generate_profile_id(profile_data, now)
                      stored == ("profileId" :> profile_id) @@ ("createdAt" :> now)
                                @@ ("updatedAt" :> now) @@ ("version" :> 1)
                                @@ profile_data
                  IN  Response("none", "", profile_id,
                               (profile_id :> _encrypt_profile(stored)) @@ store)

\* lines 45-54: [raised, msg, value], value NoneValue for an id that is not stored
get_profile(store, profile_id) ==
    IF profile_id = "" THEN Raise("ValueError", "Profile ID cannot be empty")
    ELSE IF profile_id \notin DOMAIN store THEN Return(NoneValue)
    ELSE Return(_decrypt_profile(store[profile_id]))

\* the keys of the profile whose value is a dict
DictKeys(profile) ==
    {k \in DOMAIN profile \cap {"demographics", "economic", "location", "family"} :
        ~IsNone(profile[k])}

\* lines 66-72: the merge loop; updates maps a key to [py, val]
Merge(existing_profile, updates) ==
    [k \in DOMAIN existing_profile \cup DOMAIN updates |->
        IF k \notin DOMAIN updates THEN existing_profile[k]
        ELSE IF k \in DOMAIN existing_profile /\ updates[k].py = "dict"
             THEN updates[k].val @@ existing_profile[k]
        ELSE updates[k].val]

\* update_profile storing the merged profile before it validates it
update_profile_store_first(store, profile_id, updates, now) ==
    IF profile_id = "" \/ Falsy(updates)
    THEN Response("ValueError", "Profile ID and updates cannot be empty", FALSE, store)
    ELSE LET existing_profile == get_profile(store, profile_id).value
         IN  IF IsNone(existing_profile) THEN Response("none", "", FALSE, store)
             ELSE IF \E k \in DOMAIN updates \cap DOMAIN existing_profile :
                        updates[k].py = "dict" /\ k \notin DictKeys(existing_profile)
                  THEN Response("AttributeError", "object has no attribute 'update'", FALSE, store)
             ELSE LET merged == Merge(existing_profile, updates)
                      updated == [merged EXCEPT !["updatedAt"] = now,
                                                !["version"] = @ + 1]
                      valid == _validate_profile_structure(updated)
                      stored == [store EXCEPT ![profile_id] = _encrypt_profile(updated)]
                  IN  IF valid.raised # "none"
                      THEN Response(valid.raised, valid.msg, FALSE, stored)
                      ELSE Response("none", "", TRUE, stored)

\* lines 56-84, with the clock reading `now`
update_profile(store, profile_id, updates, now) ==
    IF profile_id = "" \/ Falsy(updates)
    THEN Response("ValueError", "Profile ID and updates cannot be empty", FALSE, store)
    ELSE LET existing_profile == get_profile(store, profile_id).value
         IN  IF IsNone(existing_profile) THEN Response("none", "", FALSE, store)
             ELSE IF \E k \in DOMAIN updates \cap DOMAIN existing_profile :
                        updates[k].py = "dict" /\ k \notin DictKeys(existing_profile)
                  THEN Response("AttributeError", "object has no attribute 'update'", FALSE, store)
             ELSE LET merged == Merge(existing_profile, updates)
                      updated == [merged EXCEPT !["updatedAt"] = now,
                                                !["version"] = @ + 1]
                      valid == _validate_profile_structure(updated)
                  IN  IF valid.raised # "none"
                      THEN Response(valid.raised, valid.msg, FALSE, store)
                      ELSE Response("none", "", TRUE,
                                    [store EXCEPT ![profile_id] = _encrypt_profile(updated)])

\* delete_profile answering True for an id that is not stored
delete_profile_always_true(store, profile_id) ==
    IF profile_id = "" THEN Response("ValueError", "Profile ID cannot be empty", FALSE, store)
    ELSE Response("none", "", TRUE, [k \in DOMAIN store \ {profile_id} |-> store[k]])

\* lines 86-95
delete_profile(store, profile_id) ==
    IF profile_id = "" THEN Response("ValueError", "Profile ID cannot be empty", FALSE, store)
    ELSE IF profile_id \in DOMAIN store
         THEN Response("none", "", TRUE, [k \in DOMAIN store \ {profile_id} |-> store[k]])
    ELSE Response("none", "", FALSE, store)

\* lines 148-150
get_profile_count == Cardinality(DOMAIN profiles)

\* lines 152-154
list_profiles == DOMAIN profiles

---------------------------------------------------------------------------
(* The profile service as a state machine *)

\* create_profile(profile_data) on a clock that reads `now`
Create(profile_data, now) ==
    LET r == create_profile(profiles, profile_data, now)
    IN  /\ profiles' = r.profiles
        /\ svc' = [op |-> "create", data |-> profile_data, now |-> now,
                   countBefore |-> get_profile_count,
                   raised |-> r.raised, msg |-> r.msg, value |-> r.value]
        /\ successes' = IF r.raised = "none" THEN (r.value :> 0) @@ successes
                        ELSE successes
        /\ UNCHANGED <<engineVars, memo>>

\* update_profile(profile_id, updates) on a clock that reads `now`
Update(profile_id, updates, now) ==
    LET r == update_profile(profiles, profile_id, updates, now)
    IN  /\ profiles' = r.profiles
        /\ svc' = [op |-> "update", id |-> profile_id, updates |-> updates, now |-> now,
                   countBefore |-> get_profile_count,
                   raised |-> r.raised, msg |-> r.msg, value |-> r.value]
        /\ successes' = IF r.raised = "none" /\ r.value
                        THEN [successes EXCEPT ![profile_id] = @ + 1]
                        ELSE successes
        /\ UNCHANGED <<engineVars, memo>>

\* delete_profile(profile_id)
Delete(profile_id) ==
    LET r == delete_profile(profiles, profile_id)
    IN  /\ profiles' = r.profiles
        /\ svc' = [op |-> "delete", id |-> profile_id, now |-> svc.now,
                   countBefore |-> get_profile_count,
                   raised |-> r.raised, msg |-> r.msg, value |-> r.value]
        /\ successes' = [k \in DOMAIN successes \cap DOMAIN r.profiles |-> successes[k]]
        /\ UNCHANGED <<engineVars, memo>>

\* the version of a stored profile
Version(profile_id) == _decrypt_profile(profiles[profile_id])["version"]

\* tests/conftest.py lines 11-36 and the second profile of test_list_profiles, and
\* a profile of the same age with another income
ValidData ==
    {Profile(35, 120000, 25, "farmer"),
     Profile(40, 120000, 25, "farmer"),
     Profile(35, 90000, 0, "laborer")}

\* tests/unit/test_profile_service.py lines 35, 41-44, 53, 62, and a location
\* without a state
InvalidData ==
    {EmptyDict,
     [demographics |-> Profile(30, 120000, 25, "farmer")["demographics"]],
     Profile(-5, 120000, 25, "farmer"),
     Profile(35, -1000, 25, "farmer"),
     [Profile(35, 120000, 25, "farmer") EXCEPT !.location = [district |-> "Pune"]]}

\* the readings of datetime.utcnow(): the clock does not go back between two
\* calls, and two calls can get the same reading
Times == {t \in {1, 2} : t >= svc.now}

\* the largest number of stored profiles
MaxProfiles == 2

\* the largest version from which update_profile is called
MaxVersion == 2

Dict(d) == [py |-> "dict", val |-> d]

\* tests/unit/test_profile_service.py lines 102-105 and 132, and an age out of range
PlainUpdates ==
    {[demographics |-> Dict([age |-> 36]), economic |-> Dict([annualIncome |-> 130000])],
     [demographics |-> Dict([age |-> 200])],
     EmptyDict}

\* the ids callers pass: stored ones, one that is not stored, the empty one
KnownIds == DOMAIN profiles \cup {"non-existent-id", ""}

\* calls are made while the store and the versions are within the bounds
CanCreate == get_profile_count < MaxProfiles

CanUpdate(profile_id) == profile_id \in DOMAIN profiles => Version(profile_id) < MaxVersion

NextService ==
    \/ \E data \in ValidData \cup InvalidData, now \in Times :
          CanCreate /\ Create(data, now)
    \/ \E profile_id \in KnownIds, updates \in PlainUpdates, now \in Times :
          CanUpdate(profile_id) /\ Update(profile_id, updates, now)
    \/ \E profile_id \in KnownIds : Delete(profile_id)

SpecService == Init /\ [][NextService]_vars

---------------------------------------------------------------------------
(* Updates that name metadata keys or carry values other than the tests'.   *)
(* update_profile takes any non-empty dict (line 56: Dict[str, Any]).       *)

Value(type, v) == [py |-> type, val |-> v]

\* updates naming version, profileId and createdAt, an income that is
\* float('nan'), a section set to None, a dict for a key that holds a number
OtherUpdates ==
    {[version |-> Value("int", 10)],
     [profileId |-> Value("str", "other-id"), createdAt |-> Value("int", 0)],
     [economic |-> Dict([annualIncome |-> NaN])],
     [family |-> Value("NoneType", NoneValue)],
     [family |-> Dict([size |-> 5])],
     [version |-> Dict([major |-> 2])]}

\* the profile of tests/conftest.py, and the same with a land holding that is
\* float('nan')
UpdatesData ==
    {Profile(35, 120000, 25, "farmer"), Profile(35, 120000, NaN, "farmer")}

NextUpdates ==
    \/ \E data \in UpdatesData, now \in Times :
          CanCreate /\ Create(data, now)
    \/ \E profile_id \in DOMAIN profiles, updates \in PlainUpdates \cup OtherUpdates,
          now \in Times :
          CanUpdate(profile_id) /\ Update(profile_id, updates, now)
    \/ \E profile_id \in DOMAIN profiles : Delete(profile_id)

SpecUpdates == Init /\ [][NextUpdates]_vars

---------------------------------------------------------------------------
(* POST /evaluate/{profile_id} (api/routes/eligibility_routes.py lines 33-135) *)

\* lines 59-87
sample_schemes == <<PM_KISAN, MGNREGA, PMAY>>

\* line 90: the number of copies
extended_copies == 10

\* line 90
extended_schemes == Repeat(sample_schemes, extended_copies)

\* lines 108-116: one entry of the response
EligibilityResult(scheme) ==
    [scheme_id |-> scheme.schemeId,
     scheme_name |-> scheme.name,
     benefit_amount |-> scheme.benefitAmount,
     eligibility_score |-> scheme.eligibilityScore,
     category |-> scheme.category,
     reasons |-> <<"Meets criteria for " \o scheme.name>>,
     required_actions |-> <<>>]

\* the handler reporting the number of eligible schemes as the total
evaluate_route_counting_matches(store, self_schemes, profile_id, t) ==
    LET got == get_profile(store, profile_id)
        NoCall == [raised |-> "not called", msg |-> "", value |-> <<>>]
        Failed == [status |-> 500, detail |-> "Failed to evaluate eligibility",
                   body |-> EmptyDict, schemes |-> self_schemes, loaded |-> FALSE,
                   engine |-> NoCall]
    IN  IF got.raised # "none" THEN Failed
        ELSE IF Falsy(got.value)
        THEN [Failed EXCEPT !.status = 404, !.detail = "Profile not found: " \o profile_id]
        ELSE LET loaded == load_schemes(self_schemes, [py |-> "list", val |-> extended_schemes])
                 eligible == evaluate_eligibility(loaded.schemes, got.value, t)
             IN  IF loaded.raised # "none" THEN Failed
                 ELSE IF eligible.raised # "none"
                 THEN [Failed EXCEPT !.schemes = loaded.schemes, !.loaded = TRUE,
                                     !.engine = eligible]
                 ELSE [status |-> 200, detail |-> "",
                       body |-> [profile_id |-> profile_id,
                                 total_schemes_evaluated |-> Len(eligible.value),
                                 eligible_schemes |->
                                    [i \in DOMAIN eligible.value |->
                                        EligibilityResult(eligible.value[i])],
                                 processing_time_seconds |-> t],
                       schemes |-> loaded.schemes, loaded |-> TRUE, engine |-> eligible]

\* lines 47-135: the handler on a profile service holding `store` and an engine
\* holding `self_schemes`, with t the time the clock measures; the response
\* (status, detail or body), the engine's catalog and the engine's answer
evaluate_route(store, self_schemes, profile_id, t) ==
    LET got == get_profile(store, profile_id)
        NoCall == [raised |-> "not called", msg |-> "", value |-> <<>>]
        Failed == [status |-> 500, detail |-> "Failed to evaluate eligibility",
                   body |-> EmptyDict, schemes |-> self_schemes, loaded |-> FALSE,
                   engine |-> NoCall]
    IN  IF got.raised # "none" THEN Failed
        ELSE IF Falsy(got.value)
        THEN [Failed EXCEPT !.status = 404, !.detail = "Profile not found: " \o profile_id]
        ELSE LET loaded == load_schemes(self_schemes, [py |-> "list", val |-> extended_schemes])
                 eligible == evaluate_eligibility(loaded.schemes, got.value, t)
             IN  IF loaded.raised # "none" THEN Failed
                 ELSE IF eligible.raised # "none"
                 THEN [Failed EXCEPT !.schemes = loaded.schemes, !.loaded = TRUE,
                                     !.engine = eligible]
                 ELSE [status |-> 200, detail |-> "",
                       body |-> [profile_id |-> profile_id,
                                 total_schemes_evaluated |-> Len(extended_schemes),
                                 eligible_schemes |->
                                    [i \in DOMAIN eligible.value |->
                                        EligibilityResult(eligible.value[i])],
                                 processing_time_seconds |-> t],
                       schemes |-> loaded.schemes, loaded |-> TRUE, engine |-> eligible]

\* a request; the profile service is the one the caller provides or, with the
\* default dependency (lines 28-30), a new and empty one
RouteEvaluate(profile_id, t, provided) ==
    LET r == evaluate_route(IF provided THEN profiles ELSE EmptyDict, schemes, profile_id, t)
    IN  /\ pc = "idle"
        /\ schemes' = r.schemes
        /\ lastLoad' = IF r.loaded THEN extended_schemes ELSE lastLoad
        /\ call' = IF r.loaded
                   THEN [op |-> "evaluate", arg |-> get_profile(profiles, profile_id).value,
                         elapsed |-> t, countBefore |-> Len(r.schemes),
                         raised |-> r.engine.raised, msg |-> r.engine.msg,
                         value |-> r.engine.value]
                   ELSE call
        /\ svc' = [op |-> "evaluate_route", id |-> profile_id, now |-> svc.now,
                   countBefore |-> get_profile_count,
                   raised |-> IF r.status = 200 THEN "none" ELSE "HTTPException",
                   msg |-> r.detail, status |-> r.status, value |-> r.body]
        /\ UNCHANGED <<pc, iter, eligible_schemes, user_profile, seen, memo,
                       profiles, successes>>

\* profiles for which 30, 20 and none of the 30 schemes match
RouteData ==
    {Farmer, Profile(35, 120000, 25, "farmer"), Profile(70, 500000, 0, "retired")}

\* what the clock measures for a request: no time, and more than the limit
RouteTimes == {0, 7250}

\* requests on a service that holds at most one profile
NextRoute ==
    \/ \E data \in RouteData, now \in Times :
          get_profile_count = 0 /\ Create(data, now)
    \/ \E profile_id \in DOMAIN profiles : Delete(profile_id)
    \/ \E profile_id \in KnownIds, t \in RouteTimes, provided \in BOOLEAN :
          RouteEvaluate(profile_id, t, provided)

SpecRoute == Init /\ [][NextRoute]_vars

---------------------------------------------------------------------------
(* Properties *)

\* an evaluate_eligibility call has ended, with call.raised or call.value
Evaluated == call.op = "evaluate" /\ call.raised # "pending"

\* evaluate_eligibility returned a list, call.value
Returned == Evaluated /\ call.raised = "none"

Range(list) == {list[i] : i \in DOMAIN list}

Ids(list) == [i \in DOMAIN list |-> list[i].schemeId]

InRange(v, r) ==
    /\ "min" \in DOMAIN r => r["min"] <= v
    /\ "max" \in DOMAIN r => v <= r["max"]

CompleteProfile(profile) ==
    /\ ~IsNone(profile)
    /\ HasField(profile, "economic", "landOwnership")
    /\ HasField(profile, "economic", "employmentStatus")
    /\ HasField(profile, "economic", "annualIncome")
    /\ HasField(profile, "demographics", "age")
    /\ profile["economic"]["landOwnership"] >= 0
    /\ profile["economic"]["annualIncome"] >= 0
    /\ profile["demographics"]["age"] \in 0..150

\* the scheme carries only a land range, an employment set, an income maximum, an age range
UsesOnlyReadCriteria(scheme) ==
    /\ DOMAIN scheme["eligibilityCriteria"]
          \subseteq {"landOwnership", "employmentStatus", "annualIncome", "age"}
    /\ "annualIncome" \in DOMAIN scheme["eligibilityCriteria"]
          => DOMAIN scheme["eligibilityCriteria"]["annualIncome"] = {"max"}

\* the profile satisfies every criterion present in the scheme
Satisfies(profile, scheme) ==
    LET c == scheme["eligibilityCriteria"]
    IN  /\ "landOwnership" \in DOMAIN c
              => InRange(profile["economic"]["landOwnership"], c["landOwnership"])
        /\ "employmentStatus" \in DOMAIN c
              => profile["economic"]["employmentStatus"] \in c["employmentStatus"]
        /\ "annualIncome" \in DOMAIN c
              => profile["economic"]["annualIncome"] <= c["annualIncome"]["max"]
        /\ "age" \in DOMAIN c
              => InRange(profile["demographics"]["age"], c["age"])

\* C3: for a catalog of schemes with only land, employment, income-maximum and age
\* criteria and a profile with every field, the result has one entry per catalog
\* entry whose criteria the profile all satisfies, with its id, name and benefit,
\* and no other entry; PM-KISAN matches the farmer with income 150000 and not
\* the one with income 500000.
C3_ResultIsTheSatisfiedSchemes ==
    (/\ Returned
     /\ CompleteProfile(call.arg)
     /\ \A s \in Range(schemes) : UsesOnlyReadCriteria(s))
    =>
        LET result == call.value
            profile == call.arg
        IN  /\ \A s \in Range(schemes) :
                  Cardinality({i \in DOMAIN result : result[i].schemeId = s["schemeId"]})
                  = IF Satisfies(profile, s)
                    THEN Cardinality({j \in DOMAIN schemes : schemes[j] = s})
                    ELSE 0
            /\ \A i \in DOMAIN result : \E s \in Range(schemes) :
                  /\ result[i].schemeId = s["schemeId"]
                  /\ result[i].name = s["name"]
                  /\ result[i].benefitAmount = s["benefitAmount"]
            /\ (profile = Farmer /\ PM_KISAN \in Range(schemes))
                  => \E i \in DOMAIN result :
                        result[i].schemeId = "PM-KISAN" /\ result[i].benefitAmount = 6000
            /\ profile = RichFarmer
                  => \A i \in DOMAIN result : result[i].schemeId # "PM-KISAN"

\* the farmer matched against PM-KISAN twice and MGNREGA; the rich farmer only against MGNREGA
C3_Witness ==
    /\ Returned
    /\ schemes = <<PM_KISAN, MGNREGA, PM_KISAN>>
    /\ \/ call.arg = Farmer /\ Ids(call.value) = <<"MGNREGA", "PM-KISAN", "PM-KISAN">>
       \/ call.arg = RichFarmer /\ Ids(call.value) = <<"MGNREGA">>

\* C9: the catalog is the list passed to the most recent successful load, entry
\* for entry, and get_scheme_count() is its length (0 before any load).
C9_LoadReplaces ==
    /\ schemes = lastLoad
    /\ get_scheme_count = Len(lastLoad)
    /\ call.op = "init" => get_scheme_count = 0

\* a list of one scheme loaded over a catalog of three
C9_Witness ==
    /\ call.op = "load"
    /\ call.raised = "none"
    /\ call.countBefore = 3
    /\ Len(call.arg.val) = 1
    /\ schemes = call.arg.val

\* C10: load_schemes with an argument that is not a list raises the error
\* "Schemes must be a list" and leaves the catalog and get_scheme_count() as
\* they were.
C10_RejectedLoadKeepsCatalog ==
    (call.op = "load" /\ ~IsList(call.arg)) =>
        /\ call.raised = "ValueError"
        /\ call.msg = MsgNotList
        /\ schemes = lastLoad
        /\ get_scheme_count = call.countBefore

\* a tuple of schemes rejected while a catalog of two is loaded
C10_Witness ==
    /\ call.op = "load"
    /\ call.arg.py = "tuple"
    /\ call.raised = "ValueError"
    /\ Len(schemes) = 2

\* the loop of the most recent evaluate call ran to its end: lines 50-57 were reached
LoopCompleted ==
    /\ Evaluated
    /\ ~Falsy(call.arg)
    /\ for_loop(call.arg, schemes, 1, <<>>).raised = "none"

\* C13: a call whose loop ran to its end raises the time error exactly when the
\* measured time is above max_evaluation_time (5.0 s); the error's message shows
\* the measured time, and no result comes with it; a call that took the limit
\* or less returns the ranked list of its matches.
C13_TimeBudget ==
    LoopCompleted =>
        /\ call.raised = "RuntimeError" <=> call.elapsed > max_evaluation_time
        /\ call.elapsed > max_evaluation_time =>
              /\ call.value = <<>>
              /\ call.msg = "Evaluation took " \o Format2f(call.elapsed) \o "s, exceeds 5.0s limit"
        /\ call.elapsed <= max_evaluation_time =>
              /\ call.raised = "none"
              /\ call.value = sort_by_benefit(for_loop(call.arg, schemes, 1, <<>>).list)

\* a call with matches that took 7.25 s: the error and no list
C13_Witness ==
    /\ Evaluated
    /\ call.arg = Farmer
    /\ schemes = <<PM_KISAN, MGNREGA>>
    /\ call.elapsed = 7250
    /\ call.raised = "RuntimeError"
    /\ call.msg = "Evaluation took 7.25s, exceeds 5.0s limit"
    /\ call.value = <<>>

Criteria(scheme) == Get(scheme, "eligibilityCriteria", EmptyDict)

\* the result has an entry for the scheme
Included(scheme) == \E i \in DOMAIN call.value : call.value[i].schemeId = scheme["schemeId"]

HasAllFields(profile) ==
    /\ ~IsNone(profile)
    /\ HasField(profile, "economic", "landOwnership")
    /\ HasField(profile, "economic", "employmentStatus")
    /\ HasField(profile, "economic", "annualIncome")
    /\ HasField(profile, "demographics", "age")

\* the profile's value for a numeric criterion
ValueFor(profile, key) ==
    IF key = "age" THEN profile["demographics"]["age"] ELSE profile["economic"][key]

\* where a criterion the engine reads looks in the profile
SectionOf(key) == IF key = "age" THEN "demographics" ELSE "economic"

\* C2: a non-empty profile that lacks a field one of the scheme's criteria refers
\* to makes evaluate raise the missing-field error, whatever the other criteria
\* of the scheme do (stated for the four criteria the engine reads).
C2_MissingFieldRaises ==
    (/\ Evaluated
     /\ ~Falsy(call.arg)
     /\ \E s \in Range(schemes) :
           \E key \in DOMAIN Criteria(s)
                      \cap {"landOwnership", "employmentStatus", "annualIncome", "age"} :
               ~HasField(call.arg, SectionOf(key), key))
    => (call.raised = "ValueError" /\ call.msg = MsgMissingField)

\* C4: a scheme with a gender set, a rural flag or a family-size range that the
\* profile's value does not meet is not in the result.
C4_OtherCriteriaExclude ==
    Returned =>
        \A s \in Range(schemes) :
            LET c == Criteria(s)
                profile == call.arg
            IN  (\/ /\ "gender" \in DOMAIN c
                    /\ HasField(profile, "demographics", "gender")
                    /\ profile["demographics"]["gender"] \notin c["gender"]
                 \/ /\ "location" \in DOMAIN c
                    /\ HasField(profile, "location", "rural")
                    /\ profile["location"]["rural"] # c["location"]["rural"]
                 \/ /\ "familySize" \in DOMAIN c
                    /\ HasField(profile, "family", "size")
                    /\ ~InRange(profile["family"]["size"], c["familySize"]))
                => ~Included(s)

\* C5: a scheme whose income criterion has a min is not in the result for a
\* profile whose income is below that min.
C5_IncomeMinExcludes ==
    Returned =>
        \A s \in Range(schemes) :
            LET c == Criteria(s)
            IN  (/\ "annualIncome" \in DOMAIN c
                 /\ "min" \in DOMAIN c["annualIncome"]
                 /\ HasField(call.arg, "economic", "annualIncome")
                 /\ call.arg["economic"]["annualIncome"] < c["annualIncome"]["min"])
                => ~Included(s)

\* C6: bounds are inclusive.  A value one unit outside a bound of the land, age
\* or income-max criterion keeps the scheme out of the result; a value equal to
\* a bound passes the criterion, so a scheme with that criterion alone is in it.
C6_BoundsInclusive ==
    (Returned /\ HasAllFields(call.arg)) =>
        \A s \in Range(schemes) :
            \A key \in DOMAIN Criteria(s) \cap {"landOwnership", "annualIncome", "age"} :
                LET r == Criteria(s)[key]
                    v == ValueFor(call.arg, key)
                    alone == DOMAIN Criteria(s) = {key}
                IN  /\ ("max" \in DOMAIN r /\ v = r["max"] + 1) => ~Included(s)
                    /\ ("max" \in DOMAIN r /\ v = r["max"] /\ alone) => Included(s)
                    /\ key # "annualIncome" =>
                          /\ ("min" \in DOMAIN r /\ v = r["min"] - 1) => ~Included(s)
                          /\ ("min" \in DOMAIN r /\ v = r["min"] /\ alone) => Included(s)

\* income equal to the max of an income criterion standing alone: eligible
C6_Witness ==
    /\ Returned
    /\ Criteria(schemes[1]) = [annualIncome |-> [max |-> 200000]]
    /\ call.arg["economic"]["annualIncome"] = 200000
    /\ Len(call.value) = 1

\* the upper bound the claims give a range criterion: max, 150 for an age
\* criterion without max, none otherwise
UpperBound(key, r) ==
    IF "max" \in DOMAIN r THEN r["max"] ELSE IF key = "age" THEN 150 ELSE PosInf

\* C7 as stated: a criterion without min passes every value not above max, also
\* values below 0; one without max passes every value not below min, except
\* that an age criterion without max fails an age above 150.
C7_AbsentBoundUnconstrained ==
    (Returned /\ HasAllFields(call.arg)) =>
        \A s \in Range(schemes) :
            \A key \in DOMAIN Criteria(s) \cap {"landOwnership", "annualIncome", "age"} :
                LET r == Criteria(s)[key]
                    v == ValueFor(call.arg, key)
                    alone == DOMAIN Criteria(s) = {key}
                IN  /\ ("min" \notin DOMAIN r /\ v <= UpperBound(key, r) /\ alone)
                          => Included(s)
                    /\ ("max" \notin DOMAIN r /\ "min" \in DOMAIN r
                            /\ r["min"] <= v /\ v <= UpperBound(key, r) /\ alone)
                          => Included(s)
                    /\ (key = "age" /\ "max" \notin DOMAIN r /\ v > 150) => ~Included(s)

\* C7 amended: an absent max imposes no upper constraint, except an age
\* criterion's, which defaults to 150; an absent min defaults to 0 for land
\* ownership and age, so a value from 0 up to max passes and a value below 0
\* fails; the income criterion has no lower bound, so with min absent every
\* income not above max passes, also below 0.
C7_AbsentBoundDefaults ==
    (Returned /\ HasAllFields(call.arg)) =>
        \A s \in Range(schemes) :
            \A key \in DOMAIN Criteria(s) \cap {"landOwnership", "annualIncome", "age"} :
                LET r == Criteria(s)[key]
                    v == ValueFor(call.arg, key)
                    alone == DOMAIN Criteria(s) = {key}
                    lower == IF key = "annualIncome" THEN -PosInf ELSE 0
                IN  /\ ("min" \notin DOMAIN r /\ lower <= v /\ v <= UpperBound(key, r) /\ alone)
                          => Included(s)
                    /\ ("min" \notin DOMAIN r /\ v < lower) => ~Included(s)
                    /\ ("max" \notin DOMAIN r /\ "min" \in DOMAIN r
                            /\ r["min"] <= v /\ v <= UpperBound(key, r) /\ alone)
                          => Included(s)
                    /\ (key = "age" /\ "max" \notin DOMAIN r /\ v > 150) => ~Included(s)

\* land below 0 against a land criterion with max only: not eligible
C7_Witness ==
    /\ Returned
    /\ Criteria(schemes[1]) = [landOwnership |-> [max |-> 20]]
    /\ call.arg["economic"]["landOwnership"] = -1
    /\ call.value = <<>>

\* C20: a scheme whose criteria are {} or that has no eligibilityCriteria key
\* is in the result for every profile that is not empty, also one without the
\* fields the criteria of other schemes read, and the call raises no
\* missing-field error.
C20_NoCriteriaAlwaysEligible ==
    (Evaluated /\ ~Falsy(call.arg)) =>
        \A s \in Range(schemes) :
            Criteria(s) = EmptyDict =>
                /\ _check_scheme_eligibility(call.arg, s) = "True"
                /\ call.raised = "none" => Included(s)
                /\ (\A other \in Range(schemes) : Criteria(other) = EmptyDict)
                      => call.raised = "none"

\* the scheme without an eligibilityCriteria key, matched by {"invalid": "data"}
C20_Witness ==
    /\ Returned
    /\ "eligibilityCriteria" \notin DOMAIN schemes[1]
    /\ call.arg = InvalidProfile
    /\ Len(call.value) = 1
    /\ call.value[1].eligibilityScore = 80

\* C27: an entry's score is 0.9 when its scheme has an employment-status
\* criterion and 0.8 when it has none; with 0.9 goes "Definitely Eligible",
\* with 0.8 "Likely Eligible", and no entry has "Conditional".
C27_ScoreIsBasePlusEmploymentBonus ==
    Returned =>
        \A s \in Range(schemes) :
            \A i \in DOMAIN call.value :
                call.value[i].schemeId = s["schemeId"] =>
                    LET score == call.value[i].eligibilityScore
                        category == call.value[i].category
                    IN  /\ score = IF "employmentStatus" \in DOMAIN Criteria(s)
                                   THEN 90 ELSE 80
                        /\ <<score, category>> \in {<<90, "Definitely Eligible">>,
                                                     <<80, "Likely Eligible">>}
                        /\ category # "Conditional"

\* a scheme with a land criterion and no employment criterion, matched at 0.8
C27_Witness ==
    /\ Returned
    /\ DOMAIN Criteria(schemes[1]) = {"landOwnership", "annualIncome"}
    /\ Len(call.value) = 1
    /\ call.value[1].eligibilityScore = 80
    /\ call.value[1].category = "Likely Eligible"

---------------------------------------------------------------------------
(* Properties of interleaved calls *)

\* the response of the most recent evaluate call is what the whole call gives
\* against the list `catalog`
AnswersFor(catalog) ==
    LET r == evaluate_eligibility(catalog, call.arg, call.elapsed)
    IN  call.raised = r.raised /\ call.msg = r.msg /\ call.value = r.value

\* C8: an evaluate call during which load_schemes calls replaced the catalog
\* answers as the whole call does against one of the catalogs that were loaded
\* while it ran, the old one or a new one, never against a mixture.
C8_LoadAtomicForEvaluate ==
    Evaluated => \E catalog \in seen : AnswersFor(catalog)

\* a call that returned while a load had replaced the catalog by one for which
\* the answer differs
C8_Witness ==
    /\ Returned
    /\ Cardinality(seen) = 2
    /\ call.value # <<>>
    /\ \E catalog \in seen : ~AnswersFor(catalog)

\* C15: no scheme id occurs twice in a returned list, whatever list was loaded.
C15_NoDuplicateIds ==
    Returned =>
        \A i, j \in DOMAIN call.value :
            i # j => call.value[i].schemeId # call.value[j].schemeId

\* the number of entries of `list` equal to e
Count(list, e) == Cardinality({i \in DOMAIN list : list[i] = e})

C17_CategoryFromScore ==
    Returned =>
        \A i \in DOMAIN call.value :
            LET score == call.value[i].eligibilityScore
                category == call.value[i].category
            IN  /\ category = "Definitely Eligible" <=> score >= 90
                /\ category = "Likely Eligible" <=> (70 <= score /\ score < 90)
                /\ category = "Conditional" <=> score < 70
                /\ category \in {"Definitely Eligible", "Likely Eligible", "Conditional"}
                /\ category # "Not Eligible"

\* a result with an entry of score 0.8 and one of score 0.9
C17_Witness ==
    /\ Returned
    /\ call.arg = Farmer
    /\ schemes = <<PM_KISAN, MGNREGA>>
    /\ [i \in DOMAIN call.value |-> call.value[i].category]
          = <<"Likely Eligible", "Definitely Eligible">>

\* C18: every entry's score is from 0 to 1, with or without the employment bonus.
C18_ScoreInUnitInterval ==
    Returned =>
        \A i \in DOMAIN call.value :
            0 <= call.value[i].eligibilityScore /\ call.value[i].eligibilityScore <= 100

\* a result with the bonus on two schemes of two and three criteria
C18_Witness ==
    /\ Returned
    /\ call.arg = Farmer
    /\ Ids(call.value) = <<"PMAY", "MGNREGA", "PM-KISAN">>
    /\ [i \in DOMAIN call.value |-> call.value[i].eligibilityScore] = <<90, 80, 90>>

\* a step of an evaluate_eligibility call (a load_schemes call never moves the
\* in-flight call and always leaves op = "load")
EvaluateStep ==
    \/ call'.op = "evaluate" /\ call' # call
    \/ <<pc, iter, eligible_schemes>>' # <<pc, iter, eligible_schemes>>

\* C14: no step of an evaluate call changes the catalog, the list being walked
\* or the profile; the call ends with the whole ranked result for the list it
\* walked or, for an empty profile, a missing field or an exceeded time limit,
\* with an error and no result entry, whatever had been matched before.
C14_EvaluateAllOrNothing ==
    [][EvaluateStep =>
        /\ schemes' = schemes
        /\ lastLoad' = lastLoad
        /\ (pc = "loop" /\ pc' = "loop") =>
              (user_profile' = user_profile /\ iter'.list = iter.list)
        /\ (pc = "loop" /\ pc' = "idle") => call'.arg = user_profile
        /\ (pc' = "idle" /\ call'.raised # "none") =>
              /\ call'.raised \in {"ValueError", "RuntimeError"}
              /\ call'.value = <<>>
        /\ (pc' = "idle" /\ call'.raised = "none") =>
              call'.value = evaluate_eligibility(iter.list, call'.arg, call'.elapsed).value
    ]_vars

\* a call that matched PM-KISAN and then found the age missing for MGNREGA
C14_Witness ==
    /\ Evaluated
    /\ seen = {<<PM_KISAN, MGNREGA>>}
    /\ loop_body(call.arg, PM_KISAN, <<>>).list # <<>>
    /\ call.raised = "ValueError"
    /\ call.msg = MsgMissingField
    /\ call.value = <<>>

---------------------------------------------------------------------------
(* Properties of calls one after another *)

\* the call in `call` returned for the catalog and profile of the earlier call in memo
SameQuestion ==
    /\ call.op = "evaluate"
    /\ call.raised = "none"
    /\ memo.returned
    /\ memo.catalog = schemes
    /\ memo.arg = call.arg

C28_CatalogImmutable ==
    /\ schemes = lastLoad
    /\ get_scheme_count = Len(lastLoad)
    /\ Returned => call.value = evaluate_eligibility(lastLoad, call.arg, call.elapsed).value

---------------------------------------------------------------------------
(* Properties of catalogs of arbitrary records *)

\* the record has the three keys every result entry is built from
WellFormed(scheme) == {"schemeId", "name", "benefitAmount"} \subseteq DOMAIN scheme

\* C11: load_schemes raises "Schemes must be a list" for a list with an element
\* that lacks schemeId, name or benefitAmount; so every entry of the catalog
\* has the three keys and evaluate never fails on a scheme record's missing key.
C11_MalformedCatalogRejected ==
    /\ (/\ call.op = "load"
        /\ IsList(call.arg)
        /\ \E s \in Range(call.arg.val) : ~WellFormed(s))
       => (call.raised = "ValueError" /\ call.msg = MsgNotList)
    /\ \A s \in Range(schemes) : WellFormed(s)
    /\ Evaluated => call.raised # "KeyError"

\* C19: every entry of a returned list has a benefit amount above 0, whatever
\* list was loaded.
C19_BenefitPositive ==
    Returned => \A i \in DOMAIN call.value : call.value[i].benefitAmount > 0

\* C12: evaluate with a profile that is None or {} raises "User profile cannot
\* be empty" whatever the catalog holds, also the empty catalog and records no
\* profile could be tested against, and gives no result entry.
C12_EmptyProfileRaisesFirst ==
    (Evaluated /\ Falsy(call.arg)) =>
        /\ call.raised = "ValueError"
        /\ call.msg = MsgEmptyProfile
        /\ call.value = <<>>

\* None evaluated against a catalog whose first record fails any test of it
C12_Witness ==
    /\ Evaluated
    /\ call.arg = NoneValue
    /\ Len(schemes) = 2
    /\ schemes[1] = EmptyDict
    /\ call.msg = MsgEmptyProfile

---------------------------------------------------------------------------
(* Properties of the profile service *)

\* the step is a call of `op` that returned (did not raise)
ReturnedFrom(op) == svc'.op = op /\ svc'.raised = "none"

\* C25: delete_profile(id) with a non-empty id returns True exactly when id was
\* stored before the call; afterwards id is not stored (get_profile(id) returns
\* None, a further delete returns False), the count has dropped by 1 when it
\* returned True and is unchanged otherwise, and every other stored profile is
\* as it was.
C25_DeleteRemovesOnlyThatProfile ==
    [][ReturnedFrom("delete") /\ svc'.id # "" =>
          /\ svc'.value = (svc'.id \in DOMAIN profiles)
          /\ svc'.id \notin DOMAIN profiles'
          /\ get_profile(profiles', svc'.id) = Return(NoneValue)
          /\ delete_profile(profiles', svc'.id).value = FALSE
          /\ Cardinality(DOMAIN profiles') =
                 Cardinality(DOMAIN profiles) - (IF svc'.value THEN 1 ELSE 0)
          /\ \A k \in DOMAIN profiles \ {svc'.id} :
                 k \in DOMAIN profiles' /\ profiles'[k] = profiles[k]]_vars

\* a delete has returned True and left another profile in the store
C25_Witness ==
    /\ svc.op = "delete" /\ svc.raised = "none" /\ svc.value = TRUE
    /\ svc.countBefore = 2
    /\ get_profile_count = 1
    /\ svc.id \notin DOMAIN profiles

\* the step is a create_profile or update_profile call that did not succeed
Unsuccessful ==
    \/ svc'.op = "create" /\ svc'.raised # "none"
    \/ svc'.op = "update" /\ (svc'.raised # "none" \/ svc'.value = FALSE)

\* C30: a create_profile or update_profile call that raises, and an update
\* that returns False, leaves the store exactly as it was.
C30_FailedCallLeavesStore == [][Unsuccessful => profiles' = profiles]_vars

\* an update of a stored profile has failed the validation after the merge
C30_Witness ==
    /\ svc.op = "update" /\ svc.raised = "ValueError"
    /\ svc.msg = "Age must be between 0 and 150"
    /\ svc.id \in DOMAIN profiles
    /\ Version(svc.id) = 1

\* C24: a successful create_profile returns an id that was not in the store,
\* the count grows by exactly 1, and every profile stored before is as it was.
C24_CreateNeverOverwrites ==
    [][ReturnedFrom("create") =>
          /\ svc'.value \notin DOMAIN profiles
          /\ Cardinality(DOMAIN profiles') = Cardinality(DOMAIN profiles) + 1
          /\ \A k \in DOMAIN profiles :
                 k \in DOMAIN profiles' /\ profiles'[k] = profiles[k]]_vars

\* C23: a stored profile's version is 1 plus the number of update_profile
\* calls on its id that returned True since it was created; calls that raise
\* or return False do not count.
C23_VersionCountsUpdates ==
    \A profile_id \in DOMAIN profiles : Version(profile_id) = 1 + successes[profile_id]

\* the stored profile before and after the step's update
Before == _decrypt_profile(profiles[svc'.id])
After == _decrypt_profile(profiles'[svc'.id])

\* C26: a successful update_profile leaves profileId (the id the profile was
\* created under) and createdAt as they were; only updatedAt, version and the
\* keys named in the updates change, and the fields of a section that the
\* updates for that section do not name keep their values.
C26_UpdateKeepsIdentity ==
    [][ReturnedFrom("update") /\ svc'.value = TRUE =>
          /\ After["profileId"] = svc'.id
          /\ After["createdAt"] = Before["createdAt"]
          /\ \A k \in DOMAIN Before \ ({"updatedAt", "version"} \cup DOMAIN svc'.updates) :
                 k \in DOMAIN After /\ After[k] = Before[k]
          /\ \A k \in DOMAIN svc'.updates \cap DictKeys(Before) :
                 svc'.updates[k].py = "dict" =>
                    \A f \in DOMAIN Before[k] \ DOMAIN svc'.updates[k].val :
                       f \in DOMAIN After[k] /\ After[k][f] = Before[k][f]]_vars

\* x is a number that is 0 or more (float('nan') is not)
NonNegative(x) == x # NaN /\ x >= 0

\* C29: every stored profile has the four sections, an age in 0..150, an
\* annual income and a land ownership that are not negative.
C29_StoredProfilesValid ==
    \A profile_id \in DOMAIN profiles :
       LET profile == _decrypt_profile(profiles[profile_id])
       IN  /\ {"demographics", "economic", "location", "family"} \subseteq DOMAIN profile
           /\ profile["demographics"]["age"] \in 0..150
           /\ NonNegative(profile["economic"]["annualIncome"])
           /\ NonNegative(profile["economic"]["landOwnership"])

\* the latest request got an evaluation
Reported == svc.op = "evaluate_route" /\ svc.status = 200

\* C22: the evaluation reported for a call has total_schemes_evaluated equal
\* to the number of schemes in the catalog at the time of the call, however
\* many schemes matched.
C22_TotalIsCatalogSize ==
    Reported =>
        /\ svc.value.total_schemes_evaluated = call.countBefore
        /\ svc.value.total_schemes_evaluated = get_scheme_count
        /\ Len(svc.value.eligible_schemes) = Len(call.value)

\* an evaluation of 30 schemes of which none matched
C22_Witness ==
    /\ Reported
    /\ svc.value.total_schemes_evaluated = 30
    /\ svc.value.eligible_schemes = <<>>
    /\ get_scheme_count = 30
====
